---------------------------- MODULE Spec2Model ----------------------------
(***************************************************************************)
(* Model of app.py, the Flask translation gateway.                         *)
(*                                                                         *)
(* Two routes: POST /translate (translate_text) and GET /ping (ping).      *)
(* Each request is handled by its own invocation of the view function;     *)
(* the model keeps one record of per-request state for each of a bounded   *)
(* number of translate requests and interleaves their steps.  The places   *)
(* where a handler can be observed from outside are: the request arriving, *)
(* the end of validation (line 60), the upstream call being issued         *)
(* (line 78), and the upstream call returning (lines 78-84).               *)
(*                                                                         *)
(* JSON values are modelled structurally: an object is a record (a         *)
(* function on the keys it has), a list is a sequence, a request field is  *)
(* a tagged Python value (a str or None).                                  *)
(***************************************************************************)
EXTENDS Integers, Sequences, FiniteSets, TLC

\* Number of POST /translate requests that arrive (bound of the model).
NumRequests == 2

Requests == 1..NumRequests

VARIABLES
    pc,         \* pc[r]: "idle", "received", "validated", "inflight", "responded"
    body,       \* body[r]: the request body as sent by the client
    calls,      \* calls[r]: the upstream calls issued for request r, in order
    silent,     \* silent[r]: the upstream provider will never answer r's call
    upstream,   \* upstream[r]: <<>> or <<o>>, the outcome of r's upstream call
    resp,       \* resp[r]: <<>> or <<response>>, the HTTP response sent for r
    printed,    \* printed[r]: what the handler wrote with print(e)
    traceback,  \* traceback[r]: exceptions that escaped the view function
    pingResp,   \* <<>> or <<response>>: the last response of GET /ping
    pingCalls   \* upstream calls issued by the ping handler

vars == <<pc, body, calls, silent, upstream, resp, printed, traceback,
          pingResp, pingCalls>>

---------------------------------------------------------------------------
(* Python values of the request fields *)

Str(s) == [t |-> "str", v |-> s]

None == [t |-> "NoneType", v |-> ""]

\* bool(x) for a str or None: None and "" are falsy
Truthy(x) == x.t = "str" /\ x.v # ""

\* dict.get(k): the value, or None when the key is absent
DictGet(d, k) == IF k \in DOMAIN d THEN d[k] ELSE None

\* all(xs) for a list of values
PyAll(xs) == \A i \in 1..Len(xs) : Truthy(xs[i])

EmptyObj == [k \in {} |-> None]

---------------------------------------------------------------------------
(* Configuration, read once at import *)

API_KEY == "env:MICROSOFT_TRANSLATE_API_KEY"

REGION == "ukwest"

---------------------------------------------------------------------------
(* Request bodies a client may send *)

JsonObject(o) == [kind |-> "object", obj |-> o]

RequestBodies ==
    { JsonObject([source_lang |-> Str("en"), target_lang |-> Str("fr"), text |-> Str("Hello")]),
      \* language codes the provider does not know
      JsonObject([source_lang |-> Str("e#"), target_lang |-> Str("not-a-code"), text |-> Str("Hello")]),
      JsonObject([source_lang |-> Str("en"), text |-> Str("Hello")]),
      JsonObject([target_lang |-> Str("fr"), text |-> Str("Hello")]),
      JsonObject([source_lang |-> Str("en"), target_lang |-> Str("fr")]),
      JsonObject([source_lang |-> Str("en"), target_lang |-> Str("fr"), text |-> Str("")]),
      JsonObject([source_lang |-> Str("en"), target_lang |-> Str(""), text |-> Str("Hello")]),
      JsonObject([source_lang |-> None, target_lang |-> Str("fr"), text |-> Str("Hello")]),
      JsonObject(EmptyObj),
      \* the JSON document null, and a JSON list
      [kind |-> "null", obj |-> EmptyObj],
      [kind |-> "list", obj |-> EmptyObj],
      \* a body sent as application/json that does not parse as JSON (an
      \* empty body included)
      [kind |-> "unparseable", obj |-> EmptyObj] }

---------------------------------------------------------------------------
(* Responses *)

\* jsonify(obj), status
Jsonify(obj, status) ==
    [status |-> status, ctype |-> "application/json", body |-> obj]

\* the response Flask/werkzeug builds itself for an exception the view
\* function did not handle (an error page, not the gateway's JSON)
FrameworkError(status, name) ==
    [status |-> status, ctype |-> "text/html", body |-> [page |-> name]]

---------------------------------------------------------------------------
(* What the upstream provider can do with one call *)

\* requests.post raised before any response arrived
TransportFailure(name) ==
    [exc |-> name, status |-> 0, decode |-> "", payload |-> <<>>]

\* a response arrived: its status and what response.json() gives: the
\* parsed body (a list of result objects), or, for a body that is not
\* JSON, the exception named by decode
UpstreamResponse(status, decode, payload) ==
    [exc |-> "", status |-> status, decode |-> decode, payload |-> payload]

\* response.json() on a body that is not JSON raises
\* requests.exceptions.JSONDecodeError, a RequestException, with
\* requests 2.27 and later, and a plain ValueError before; no version is
\* pinned, so both are outcomes of the call
Json == ""

NotJson == {"JSONDecodeError", "ValueError"}

Translation(t) == [text |-> t, to |-> "fr"]

UpstreamOutcomes ==
    { TransportFailure("ConnectionError"),
      UpstreamResponse(503, "JSONDecodeError", <<>>),
      UpstreamResponse(200, "JSONDecodeError", <<>>),
      UpstreamResponse(200, "ValueError", <<>>),
      \* JSON, but not of the expected shape
      UpstreamResponse(200, Json, <<>>),
      UpstreamResponse(200, Json, << [detectedLanguage |-> "en"] >>),
      UpstreamResponse(200, Json, << [translations |-> <<>>] >>),
      UpstreamResponse(200, Json, << [translations |-> << [to |-> "fr"] >>] >>),
      \* the expected shape
      UpstreamResponse(200, Json, << [translations |-> << Translation("Bonjour") >>] >>),
      UpstreamResponse(201, Json,
          << [translations |-> << Translation("Salut"), Translation("Bonjour") >>],
             [translations |-> << Translation("Hola") >>] >>) }

---------------------------------------------------------------------------
(* translate_text, lines 53-60: parsing and validation *)

\* the outcome of a piece of the handler: either it goes on (proceed), or
\* the request ends with a response; traceback holds an exception that
\* left the view function
GoOn == [proceed |-> TRUE, resp |-> <<>>, traceback |-> <<>>]

Return(response) == [proceed |-> FALSE, resp |-> <<response>>, traceback |-> <<>>]

\* an HTTPException raised inside the view: Flask turns it into its response
Abort(status, name) ==
    [proceed |-> FALSE, resp |-> <<FrameworkError(status, name)>>, traceback |-> <<>>]

\* any other exception leaving the view: Flask logs it and answers 500
Unhandled(name) ==
    [proceed |-> FALSE,
     resp |-> <<FrameworkError(500, "Internal Server Error")>>,
     traceback |-> <<name>>]

ValidationResult(b) ==
    IF b.kind = "unparseable"
    THEN \* request.get_json() fails to parse: werkzeug BadRequest
         Abort(400, "Bad Request")
    ELSE IF b.kind # "object"
    THEN \* data is None or a list: data.get does not exist
         Unhandled("AttributeError")
    ELSE LET source_lang == DictGet(b.obj, "source_lang")
             target_lang == DictGet(b.obj, "target_lang")
             text        == DictGet(b.obj, "text")
         IN  IF ~PyAll(<<source_lang, target_lang, text>>)
             THEN Return(Jsonify([error |-> "Missing required fields"], 400))
             ELSE GoOn

---------------------------------------------------------------------------
(* translate_text, lines 62-78: the upstream call *)

\* a variant that passes the language pair the wrong way round
UpstreamCallSwapped(b) ==
    LET source_lang == DictGet(b.obj, "source_lang")
        target_lang == DictGet(b.obj, "target_lang")
        text        == DictGet(b.obj, "text")
    IN  [method   |-> "POST",
         endpoint |-> "https://api.cognitive.microsofttranslator.com/translate",
         params   |-> ("api-version" :> Str("3.0")) @@ ("from" :> target_lang)
                         @@ ("to" :> source_lang),
         headers  |-> ("Ocp-Apim-Subscription-Key" :> API_KEY)
                         @@ ("Ocp-Apim-Subscription-Region" :> REGION)
                         @@ ("Content-type" :> "application/json"),
         json     |-> << [text |-> text] >>]

UpstreamCall(b) ==
    LET source_lang == DictGet(b.obj, "source_lang")
        target_lang == DictGet(b.obj, "target_lang")
        text        == DictGet(b.obj, "text")
    IN  [method   |-> "POST",
         endpoint |-> "https://api.cognitive.microsofttranslator.com/translate",
         params   |-> ("api-version" :> Str("3.0")) @@ ("from" :> source_lang)
                         @@ ("to" :> target_lang),
         headers  |-> ("Ocp-Apim-Subscription-Key" :> API_KEY)
                         @@ ("Ocp-Apim-Subscription-Region" :> REGION)
                         @@ ("Content-type" :> "application/json"),
         json     |-> << [text |-> text] >>]

---------------------------------------------------------------------------
(* translate_text, lines 78-84: the outcome of the call *)

\* Response.raise_for_status(): HTTPError for a 4xx or 5xx status
RaisesForStatus(status) == status >= 400 /\ status < 600

Raised(name) == [exc |-> name, val |-> ""]

Value(v) == [exc |-> "", val |-> v]

\* a variant that indexes from the end: response.json()[-1]["translations"][-1]["text"]
ExtractTranslationLast(payload) ==
    IF Len(payload) = 0 THEN Raised("IndexError")
    ELSE IF "translations" \notin DOMAIN payload[Len(payload)] THEN Raised("KeyError")
    ELSE IF Len(payload[Len(payload)].translations) = 0 THEN Raised("IndexError")
    ELSE LET ts == payload[Len(payload)].translations
         IN  IF "text" \notin DOMAIN ts[Len(ts)] THEN Raised("KeyError")
             ELSE Value(ts[Len(ts)].text)

\* response.json()[0]["translations"][0]["text"]
ExtractTranslation(payload) ==
    IF Len(payload) = 0 THEN Raised("IndexError")
    ELSE IF "translations" \notin DOMAIN payload[1] THEN Raised("KeyError")
    ELSE IF Len(payload[1].translations) = 0 THEN Raised("IndexError")
    ELSE IF "text" \notin DOMAIN payload[1].translations[1] THEN Raised("KeyError")
    ELSE Value(payload[1].translations[1].text)

\* the body of the try block, lines 78-80
TryBlock(o) ==
    IF o.exc # "" THEN Raised(o.exc)
    ELSE IF RaisesForStatus(o.status) THEN Raised("HTTPError")
    ELSE IF o.decode \in NotJson THEN Raised(o.decode)
    ELSE ExtractTranslation(o.payload)

\* isinstance(e, requests.exceptions.RequestException)
IsRequestException(name) ==
    name \in {"ConnectionError", "Timeout", "HTTPError", "JSONDecodeError"}

\* lines 77-84: what the handler does with outcome o
HandleOutcome(o) ==
    LET t == TryBlock(o)
    IN  IF t.exc = ""
        THEN [resp      |-> Jsonify([translated_text |-> t.val], 200),
              printed   |-> <<>>,
              traceback |-> <<>>]
        ELSE IF IsRequestException(t.exc)
        THEN [resp      |-> Jsonify([error |-> "Translation failed"], 500),
              printed   |-> <<t.exc>>,
              traceback |-> <<>>]
        ELSE [resp      |-> FrameworkError(500, "Internal Server Error"),
              printed   |-> <<>>,
              traceback |-> <<t.exc>>]

---------------------------------------------------------------------------
(* ping, line 98 *)

PingResponse == Jsonify([message |-> "Flask backend is working!"], 200)

---------------------------------------------------------------------------
(* The state machine *)

NoBody == [kind |-> "none", obj |-> EmptyObj]

Init ==
    /\ pc = [r \in Requests |-> "idle"]
    /\ body = [r \in Requests |-> NoBody]
    /\ calls = [r \in Requests |-> <<>>]
    /\ silent = [r \in Requests |-> FALSE]
    /\ upstream = [r \in Requests |-> <<>>]
    /\ resp = [r \in Requests |-> <<>>]
    /\ printed = [r \in Requests |-> <<>>]
    /\ traceback = [r \in Requests |-> <<>>]
    /\ pingResp = <<>>
    /\ pingCalls = <<>>

\* a client's POST /translate with body b reaches the view function
Receive(r, b) ==
    /\ pc[r] = "idle"
    /\ pc' = [pc EXCEPT ![r] = "received"]
    /\ body' = [body EXCEPT ![r] = b]
    /\ UNCHANGED <<calls, silent, upstream, resp, printed, traceback,
                   pingResp, pingCalls>>

\* a variant in which the server handles one translate request at a time:
\* validation waits while another request's upstream call is in flight
ValidateSerialized(r) ==
    /\ pc[r] = "received"
    /\ \A q \in Requests \ {r} : pc[q] # "inflight"
    /\ LET v == ValidationResult(body[r])
       IN  /\ pc' = [pc EXCEPT ![r] = IF v.proceed THEN "validated" ELSE "responded"]
           /\ resp' = [resp EXCEPT ![r] = v.resp]
           /\ traceback' = [traceback EXCEPT ![r] = v.traceback]
    /\ UNCHANGED <<body, calls, silent, upstream, printed,
                   pingResp, pingCalls>>

\* lines 53-60
Validate(r) ==
    /\ pc[r] = "received"
    /\ LET v == ValidationResult(body[r])
       IN  /\ pc' = [pc EXCEPT ![r] = IF v.proceed THEN "validated" ELSE "responded"]
           /\ resp' = [resp EXCEPT ![r] = v.resp]
           /\ traceback' = [traceback EXCEPT ![r] = v.traceback]
    /\ UNCHANGED <<body, calls, silent, upstream, printed,
                   pingResp, pingCalls>>

\* lines 62-78: requests.post is entered and the call goes out
IssueCall(r) ==
    /\ pc[r] = "validated"
    /\ pc' = [pc EXCEPT ![r] = "inflight"]
    /\ calls' = [calls EXCEPT ![r] = Append(calls[r], UpstreamCall(body[r]))]
    /\ UNCHANGED <<body, silent, upstream, resp, printed, traceback,
                   pingResp, pingCalls>>

\* line 78 passes no timeout: when the provider accepts the connection and
\* never answers, requests.post never returns
UpstreamNeverAnswers(r) ==
    /\ pc[r] = "inflight"
    /\ ~silent[r]
    /\ silent' = [silent EXCEPT ![r] = TRUE]
    /\ UNCHANGED <<pc, body, calls, upstream, resp, printed, traceback,
                   pingResp, pingCalls>>

\* a variant that, in the except branch, issues the call a second time
CompleteWithRetry(r, o) ==
    /\ pc[r] = "inflight"
    /\ ~silent[r]
    /\ LET h == HandleOutcome(o)
       IN  IF h.printed # <<>> /\ Len(calls[r]) < 2
           THEN /\ calls' = [calls EXCEPT ![r] = Append(calls[r], UpstreamCall(body[r]))]
                /\ printed' = [printed EXCEPT ![r] = h.printed]
                /\ UNCHANGED <<pc, upstream, resp, traceback>>
           ELSE /\ resp' = [resp EXCEPT ![r] = <<h.resp>>]
                /\ printed' = [printed EXCEPT ![r] = h.printed]
                /\ traceback' = [traceback EXCEPT ![r] = h.traceback]
                /\ upstream' = [upstream EXCEPT ![r] = <<o>>]
                /\ pc' = [pc EXCEPT ![r] = "responded"]
                /\ UNCHANGED calls
    /\ UNCHANGED <<body, silent, pingResp, pingCalls>>

\* a variant that, in the except branch, goes back to build the call again
CompleteRequeues(r, o) ==
    /\ pc[r] = "inflight"
    /\ ~silent[r]
    /\ LET h == HandleOutcome(o)
       IN  IF h.printed # <<>>
           THEN /\ pc' = [pc EXCEPT ![r] = "validated"]
                /\ printed' = [printed EXCEPT ![r] = h.printed]
                /\ UNCHANGED <<upstream, resp, traceback>>
           ELSE /\ resp' = [resp EXCEPT ![r] = <<h.resp>>]
                /\ printed' = [printed EXCEPT ![r] = h.printed]
                /\ traceback' = [traceback EXCEPT ![r] = h.traceback]
                /\ upstream' = [upstream EXCEPT ![r] = <<o>>]
                /\ pc' = [pc EXCEPT ![r] = "responded"]
    /\ UNCHANGED <<body, calls, silent, pingResp, pingCalls>>

\* lines 78-84: requests.post returns or raises, and the handler finishes
Complete(r, o) ==
    /\ pc[r] = "inflight"
    /\ ~silent[r]
    /\ LET h == HandleOutcome(o)
       IN  /\ resp' = [resp EXCEPT ![r] = <<h.resp>>]
           /\ printed' = [printed EXCEPT ![r] = h.printed]
           /\ traceback' = [traceback EXCEPT ![r] = h.traceback]
    /\ upstream' = [upstream EXCEPT ![r] = <<o>>]
    /\ pc' = [pc EXCEPT ![r] = "responded"]
    /\ UNCHANGED <<body, calls, silent, pingResp, pingCalls>>

\* a variant whose health check probes the provider and reports on it
PingProbesUpstream ==
    /\ pingCalls' = IF pingCalls = <<>> THEN <<"probe">> ELSE pingCalls
    /\ pingResp' = IF \E r \in Requests : silent[r]
                   THEN <<Jsonify([message |-> "Upstream unavailable"], 503)>>
                   ELSE <<PingResponse>>
    /\ UNCHANGED <<pc, body, calls, silent, upstream, resp, printed, traceback>>

\* GET /ping, line 98
Ping ==
    /\ pingResp' = <<PingResponse>>
    /\ UNCHANGED <<pc, body, calls, silent, upstream, resp, printed, traceback,
                   pingCalls>>

Next ==
    \/ \E r \in Requests, b \in RequestBodies : Receive(r, b)
    \/ \E r \in Requests : Validate(r)
    \/ \E r \in Requests : IssueCall(r)
    \/ \E r \in Requests : UpstreamNeverAnswers(r)
    \/ \E r \in Requests, o \in UpstreamOutcomes : Complete(r, o)
    \/ Ping

Spec == Init /\ [][Next]_vars

\* Each request has its own thread of the server, so a handler that can
\* take a step eventually takes it; the provider answers a call unless it
\* never answers.  Clients and the provider are under no obligation.
FairSpec ==
    /\ Spec
    /\ \A r \in Requests :
          /\ WF_vars(Validate(r))
          /\ WF_vars(IssueCall(r))
          /\ WF_vars(\E o \in UpstreamOutcomes : Complete(r, o))

TypeOK ==
    /\ \A r \in Requests :
          /\ pc[r] \in {"idle", "received", "validated", "inflight", "responded"}
          /\ Len(resp[r]) <= 1
    /\ Len(pingResp) <= 1

---------------------------------------------------------------------------
(* Vocabulary of the properties *)

Fields == {"source_lang", "target_lang", "text"}

\* field k of body b is missing or empty (a body that is no JSON object has
\* no fields)
MissingOrEmpty(b, k) ==
    \/ b.kind # "object"
    \/ k \notin DOMAIN b.obj
    \/ b.obj[k] = None
    \/ b.obj[k] = Str("")

IncompleteRequest(b) == \E k \in Fields : MissingOrEmpty(b, k)

CompleteRequest(b) == ~IncompleteRequest(b)

\* the payload has the shape [{"translations": [{"text": T}, ...]}, ...]
ExpectedShape(payload) ==
    /\ Len(payload) >= 1
    /\ "translations" \in DOMAIN payload[1]
    /\ Len(payload[1].translations) >= 1
    /\ "text" \in DOMAIN payload[1].translations[1]

UpstreamSucceeded(o) ==
    /\ o.exc = ""
    /\ o.status >= 200 /\ o.status < 300
    /\ o.decode = Json
    /\ ExpectedShape(o.payload)

UpstreamFailed(o) == ~UpstreamSucceeded(o)

MissingFieldsResponse ==
    [status |-> 400, ctype |-> "application/json",
     body |-> [error |-> "Missing required fields"]]

TranslationFailedResponse ==
    [status |-> 500, ctype |-> "application/json",
     body |-> [error |-> "Translation failed"]]

IsSuccessResponse(x) ==
    /\ x.status = 200
    /\ x.ctype = "application/json"
    /\ "translated_text" \in DOMAIN x.body
    /\ "error" \notin DOMAIN x.body

Responded(r) == pc[r] = "responded"

---------------------------------------------------------------------------
(* C1 *)

\* C1: every request in which a field is missing or empty (a body that is
\* absent or no JSON object included) is answered 400 with
\* {"error": "Missing required fields"}, and no upstream call is issued
\* for it.
C1_IncompleteRequestGets400 ==
    \A r \in Requests :
        (pc[r] # "idle" /\ IncompleteRequest(body[r])) =>
            /\ calls[r] = <<>>
            /\ Responded(r) => resp[r] = <<MissingFieldsResponse>>

---------------------------------------------------------------------------
(* C2 *)

\* C2: for a valid request, every upstream failure (transport failure,
\* non-2xx status, a body that is not JSON, a payload without the expected
\* fields) is answered 500 with exactly {"error": "Translation failed"}.
C2_UpstreamFailureGets500 ==
    \A r \in Requests :
        (Responded(r) /\ upstream[r] # <<>> /\ UpstreamFailed(upstream[r][1])) =>
            resp[r] = <<TranslationFailedResponse>>

---------------------------------------------------------------------------
(* C3 *)

\* C3: a request with three non-empty fields whose upstream call returns a
\* 2xx response of the expected shape is answered 200 with translated_text
\* equal to the text of the first translation of the first result.
C3_SuccessReturnsFirstTranslation ==
    \A r \in Requests :
        (Responded(r) /\ CompleteRequest(body[r])
            /\ upstream[r] # <<>> /\ UpstreamSucceeded(upstream[r][1])) =>
            resp[r] = << [status |-> 200, ctype |-> "application/json",
                          body |-> [translated_text |->
                              upstream[r][1].payload[1].translations[1].text]] >>

\* a request answered from a payload with several results and translations
C3_Witness ==
    \E r \in Requests :
        /\ Responded(r)
        /\ upstream[r] # <<>>
        /\ UpstreamSucceeded(upstream[r][1])
        /\ Len(upstream[r][1].payload) > 1
        /\ Len(upstream[r][1].payload[1].translations) > 1
        /\ resp[r][1].body = [translated_text |-> "Salut"]

---------------------------------------------------------------------------
(* C4 *)

\* C4: every response to POST /translate is one of: 200 with a body holding
\* translated_text and no error, 400 {"error": "Missing required fields"},
\* 500 {"error": "Translation failed"}.
C4_ResponseIsOneOfThree ==
    \A r \in Requests :
        resp[r] # <<>> =>
            \/ IsSuccessResponse(resp[r][1])
            \/ resp[r][1] = MissingFieldsResponse
            \/ resp[r][1] = TranslationFailedResponse

---------------------------------------------------------------------------
(* C5 *)

\* C5: a request causes at most one upstream call over its lifetime: exactly
\* one once validation has passed and the call has gone out, none when
\* validation fails, and none is added after an upstream failure.
C5_AtMostOneUpstreamCall ==
    \A r \in Requests :
        /\ Len(calls[r]) <= 1
        /\ pc[r] \in {"idle", "received", "validated"} => Len(calls[r]) = 0
        /\ pc[r] = "inflight" => Len(calls[r]) = 1
        /\ Responded(r) =>
              Len(calls[r]) = IF CompleteRequest(body[r]) THEN 1 ELSE 0

\* a request whose single call failed and was answered, and a request that
\* failed validation
C5_Witness ==
    \E r, q \in Requests :
        /\ Responded(r) /\ upstream[r] # <<>> /\ UpstreamFailed(upstream[r][1])
        /\ printed[r] # <<>>
        /\ Len(calls[r]) = 1
        /\ Responded(q) /\ IncompleteRequest(body[q]) /\ Len(calls[q]) = 0

---------------------------------------------------------------------------
(* C6 *)

\* C6: GET /ping always answers 200 with
\* {"message": "Flask backend is working!"} and issues no upstream call,
\* whatever the provider does and whatever translate requests are in flight.
C6_PingAlwaysOk ==
    /\ pingCalls = <<>>
    /\ pingResp # <<>> =>
          /\ Len(pingResp) = 1
          /\ pingResp[1].status = 200
          /\ pingResp[1].ctype = "application/json"
          /\ pingResp[1].body = [message |-> "Flask backend is working!"]

\* a ping answered while one call is never answered and another has failed
C6_Witness ==
    /\ pingResp # <<>>
    /\ \E r, q \in Requests :
          /\ pc[r] = "inflight" /\ silent[r]
          /\ Responded(q) /\ upstream[q] # <<>> /\ upstream[q][1].exc = "ConnectionError"

---------------------------------------------------------------------------
(* C7 *)

\* everything the program holds about request r
RequestState(r) ==
    <<pc[r], body[r], calls[r], silent[r], upstream[r], resp[r], printed[r],
      traceback[r]>>

\* a request that can take its next step can take it whatever the others do
C7_NotBlocked ==
    \A r \in Requests :
        /\ pc[r] = "received" => ENABLED Validate(r)
        /\ pc[r] = "validated" => ENABLED IssueCall(r)
        /\ (pc[r] = "inflight" /\ ~silent[r]) =>
              \A o \in UpstreamOutcomes : ENABLED Complete(r, o)

\* two requests with the same body and the same upstream outcome have the
\* same response, the same call and the same log line
C7_SameInputSameResponse ==
    \A r, q \in Requests :
        (Responded(r) /\ Responded(q) /\ body[r] = body[q] /\ upstream[r] = upstream[q]) =>
            /\ resp[r] = resp[q]
            /\ calls[r] = calls[q]
            /\ printed[r] = printed[q]

\* no step changes the state of two requests
C7_StepTouchesOneRequest ==
    \A r, q \in Requests :
        r # q => (RequestState(r)' = RequestState(r) \/ RequestState(q)' = RequestState(q))

\* C7: concurrent requests are independent: the response to a request
\* depends only on its own body and its own upstream outcome, no step of one
\* request changes the state of another, and a request whose upstream call
\* is in flight never prevents another request from being validated, from
\* calling upstream or from being answered.
C7_RequestsIndependent ==
    /\ [](C7_NotBlocked /\ C7_SameInputSameResponse)
    /\ [][C7_StepTouchesOneRequest]_vars

\* one request waits on a provider that never answers while another, which
\* arrived later, has been answered after its own upstream call
C7_Witness ==
    \E r, q \in Requests :
        /\ r # q
        /\ pc[r] = "inflight" /\ silent[r]
        /\ Responded(q) /\ upstream[q] # <<>>

---------------------------------------------------------------------------
(* C8 *)

\* C8: the handler writes a diagnostic log line for a request if and only if
\* the request's upstream call failed.
C8_LogIffUpstreamFailed ==
    \A r \in Requests :
        Responded(r) =>
            (printed[r] # <<>> <=> (upstream[r] # <<>> /\ UpstreamFailed(upstream[r][1])))

---------------------------------------------------------------------------
(* C9 *)

Rank(s) ==
    CASE s = "idle" -> 0
      [] s = "received" -> 1
      [] s = "validated" -> 2
      [] s = "inflight" -> 3
      [] s = "responded" -> 4

\* C9 as claimed: every received request eventually reaches responded, its
\* states following the order received, validated, in flight, responded,
\* also when the provider never answers.
C9_EveryRequestResponds ==
    /\ [][\A r \in Requests : Rank(pc'[r]) >= Rank(pc[r])]_vars
    /\ \A r \in Requests : (pc[r] = "received") ~> Responded(r)

\* the steps a request takes
C9_Steps ==
    { <<"idle", "received">>, <<"received", "validated">>,
      <<"received", "responded">>, <<"validated", "inflight">>,
      <<"inflight", "responded">> }

\* C9 as amended: a request moves only along received -> validated ->
\* in flight -> responded (or received -> responded when validation ends
\* it); every received request eventually reaches responded unless the
\* provider never answers its call, and then it stays in flight for ever.
C9_RespondsUnlessProviderSilent ==
    /\ [][\A r \in Requests :
             /\ pc'[r] # pc[r] => <<pc[r], pc'[r]>> \in C9_Steps
             /\ silent[r] => (silent'[r] /\ pc'[r] = "inflight" /\ resp'[r] = <<>>)]_vars
    /\ \A r \in Requests : (pc[r] = "received") ~> (Responded(r) \/ silent[r])

\* one request answered after its upstream call, another left in flight
C9_Witness ==
    \E r, q \in Requests :
        /\ Responded(r) /\ upstream[r] # <<>> /\ Len(calls[r]) = 1
        /\ pc[q] = "inflight" /\ silent[q] /\ resp[q] = <<>>

---------------------------------------------------------------------------
(* C10 *)

\* C10: the upstream call of a validated request carries from = source_lang,
\* to = target_lang, api-version = 3.0 and a body of exactly one segment
\* holding the request's text; a request with three non-empty fields is
\* never answered 400, whatever its language codes look like.
C10_CallCarriesRequestValues ==
    \A r \in Requests :
        /\ calls[r] # <<>> =>
              /\ calls[r][1].params["from"] = body[r].obj.source_lang
              /\ calls[r][1].params["to"] = body[r].obj.target_lang
              /\ calls[r][1].params["api-version"] = Str("3.0")
              /\ DOMAIN calls[r][1].params = {"api-version", "from", "to"}
              /\ calls[r][1].json = << [text |-> body[r].obj.text] >>
        /\ (CompleteRequest(body[r]) /\ pc[r] \in {"inflight", "responded"}) =>
              /\ Len(calls[r]) = 1
              /\ resp[r] # <<>> => resp[r][1].status # 400

\* a call issued with language codes no provider knows
C10_Witness ==
    \E r \in Requests :
        /\ calls[r] # <<>>
        /\ calls[r][1].params["from"] = Str("e#")
        /\ calls[r][1].params["to"] = Str("not-a-code")
        /\ calls[r][1].json = << [text |-> Str("Hello")] >>

=============================================================================
